---- MODULE Spec2Model ----
(***************************************************************************)
(* FetchCve: a paginated, rate-limited REST fetch pipeline.                *)
(*                                                                         *)
(*   main thread    CveFetcher.fetch_days_back -> Fetcher.fetch ->         *)
(*                  Fetcher._fetch (first page, page discovery, worker     *)
(*                  start, params_queue.join) -> Fetcher._finalize_fetch   *)
(*   worker threads Fetcher._fetch_worker                                  *)
(*   sink thread    SaveFileParser.run                                     *)
(*   every request  Fetcher.make_request (403 cooldown, 503 retries)       *)
(*                                                                         *)
(* The HTTP server is the environment: it chooses the status of every      *)
(* response and the pagination data of every first page, within the        *)
(* budgets held in srv.                                                    *)
(***************************************************************************)
EXTENDS Integers, Sequences, FiniteSets, TLC

(***************************************************************************)
(* Program constants.                                                      *)
(***************************************************************************)
STATUS_CODE_FORBIDDEN == 403
STATUS_CODE_SERVICE_UNAVAILABLE == 503
STATUS_CODE_SUCCESS == 200
RETRY_TIMER == 15
MAX_RETRIES == 10
COOLDOWN_TIME == 30
MAX_CONSECUTIVE_DAYS == 120

(***************************************************************************)
(* Configuration scaled down for checking.  Fetcher.MAX_WORKERS is a class *)
(* variable every concrete fetcher sets (CveFetcher sets 5); the model     *)
(* runs the same code with a smaller pool.                                 *)
(***************************************************************************)
MAX_WORKERS == 2

(***************************************************************************)
(* Bounds of the model.                                                    *)
(***************************************************************************)
\* entries the server reports in one execution of SpecFetch
MaxTotal == 4
\* entries the server reports in one execution of Spec
SinkMaxTotal == 3
\* largest resultsPerPage the server reports
MaxPerPage == 2
\* largest max_entries handed to SaveFileParser
MaxBatch == 2
\* 403 responses the server gives in one execution of SpecRequest
Max403 == 3
\* largest days_back handed to fetch_days_back in SpecRange
MaxDaysBack == 250
\* ranges of the pagination data in SpecPages
PageMaxTotal == 230
PageMaxStart == 2
PageMaxPer == 100
\* the 403 responses the server may give during a long outage
MaxOutage403 == 1

Min(a, b) == IF a <= b THEN a ELSE b
Max(a, b) == IF a >= b THEN a ELSE b

\* math.ceil(a / b) for b > 0 (a may be negative)
Ceil(a, b) == -((-a) \div b)

\* the termination value put on the output queue, and an entry of the stream
None == <<"None">>
Cve(w, i) == <<"cve", w, i>>

Workers == 1..MAX_WORKERS
\* thread 0 is the main thread (the coordinator of every run)
Main == 0
Threads == {Main} \cup Workers

VARIABLES
    days_back,      \* argument of fetch_days_back
    max_entries,    \* SaveFileParser.max_entries
    cpc,            \* position of the main thread
    days_left,      \* fetch_days_back: days_left
    end_date,       \* fetch_days_back: end_date, [day, ms, us]
    windows,        \* history: the fetch() calls issued, in order
    response,       \* _fetch: pagination data of the first page's response
    params_queue,   \* _fetch: params_queue, the page offsets not yet claimed
    unfinished,     \* params_queue.unfinished_tasks
    thread_count,   \* _fetch: thread_count
    started,        \* _fetch: worker threads started in this run
    wk,             \* worker threads: [pc, run, page]
    mr,             \* make_request frames, one per thread
    pending,        \* _parse_response: entries of the response not yet put
    output_queue,   \* the output queue (ResultStream), items not yet taken
    taken,          \* history: items the sink has taken, in order
    spc,            \* position of the sink thread
    entry,          \* SaveFileParser.run: entry
    entry_count,    \* SaveFileParser.run: entry_count
    total_entries,  \* SaveFileParser.run: total_entries
    files,          \* files written: sequence of [lines, closed]
    srv,            \* environment: what the server may still answer
    requested,      \* history: page offsets requested by workers in this run
    ncalls,         \* history: make_request calls made by workers in this run
    failed          \* history: page offsets whose request failed in this run

vars == <<days_back, max_entries, cpc, days_left, end_date, windows, response,
          params_queue, unfinished, thread_count, started, wk, mr, pending,
          output_queue, taken, spc,
          entry, entry_count, total_entries, files, srv, requested, ncalls,
          failed>>

argVars == <<days_back, max_entries>>
rangeVars == <<days_left, end_date, windows>>
runVars == <<response, params_queue, unfinished, thread_count, started>>
sinkVars == <<taken, spc, entry, entry_count, total_entries, files>>
histVars == <<requested, ncalls, failed>>

\* every value put on the output queue so far, in order
PutLog == taken \o output_queue

(***************************************************************************)
(* The server.  srv holds how many 403, 503 and other non-success          *)
(* responses it may still give, and how many entries it may still report.  *)
(***************************************************************************)
OtherStatuses == {404, 500}
Statuses == {STATUS_CODE_SUCCESS, STATUS_CODE_FORBIDDEN,
             STATUS_CODE_SERVICE_UNAVAILABLE} \cup OtherStatuses

MayAnswer(s) ==
    IF s = STATUS_CODE_FORBIDDEN THEN srv.f403 > 0
    ELSE IF s = STATUS_CODE_SERVICE_UNAVAILABLE THEN srv.f503 > 0
    ELSE IF s \in OtherStatuses THEN srv.fother > 0
    ELSE TRUE

Charge(s) ==
    IF s = STATUS_CODE_FORBIDDEN THEN [srv EXCEPT !.f403 = @ - 1]
    ELSE IF s = STATUS_CODE_SERVICE_UNAVAILABLE THEN [srv EXCEPT !.f503 = @ - 1]
    ELSE IF s \in OtherStatuses THEN [srv EXCEPT !.fother = @ - 1]
    ELSE srv

\* the 'vulnerabilities' of the page at offset o of window w, for a result
\* set of resp.total entries served resp.per at a time
PageEntries(w, o, resp) ==
    [i \in 1..Max(0, Min(o + resp.per, resp.total) - o) |-> Cve(w, o + i - 1)]

(***************************************************************************)
(* Fetcher.make_request.  A frame is [pc, attempts, status, params] plus   *)
(* the history of the call: gets (requests issued), cooldowns and retries  *)
(* (sleeps of COOLDOWN_TIME and of RETRY_TIMER completed), dur (the sleep  *)
(* in progress).                                                           *)
(*   pc: "idle"  no call in progress                                       *)
(*       "get"   at requests.get(full_url)                                 *)
(*       "sleep" in time.sleep(dur)                                        *)
(*       "returned" | "unsupported" | "unavailable"  the call has ended    *)
(* Once _fetch has acted on the outcome of the first request, the frame of *)
(* the main thread keeps only that outcome (its pc), until the next run.   *)
(***************************************************************************)
IdleRequest ==
    [pc |-> "idle", attempts |-> 0, status |-> 0, dur |-> 0, params |-> <<>>,
     gets |-> 0, cooldowns |-> 0, retries |-> 0]

\* lines 137-141: attempts = 1
NewRequest(p) ==
    [pc |-> "get", attempts |-> 1, status |-> 0, dur |-> 0, params |-> p,
     gets |-> 0, cooldowns |-> 0, retries |-> 0]

\* the request is retried at once, without the cooldown
OnForbiddenNoSleep(m) == [m EXCEPT !.pc = "get"]

\* a 403 response counts as an attempt
OnForbiddenCounts(m) ==
    [m EXCEPT !.pc = "sleep", !.dur = COOLDOWN_TIME, !.attempts = @ + 1]

\* lines 145-149: 403, cooldown and retry
OnForbidden(m) == [m EXCEPT !.pc = "sleep", !.dur = COOLDOWN_TIME]

\* lines 150-160: 503, retry up to MAX_RETRIES attempts
OnUnavailable(m) ==
    IF m.attempts = MAX_RETRIES
    THEN [m EXCEPT !.pc = "unavailable"]
    ELSE [m EXCEPT !.pc = "sleep", !.attempts = @ + 1, !.dur = RETRY_TIMER]

\* an unsupported status is retried like a 503
OnOtherRetry(m) == [m EXCEPT !.pc = "sleep", !.dur = RETRY_TIMER]

\* lines 161-169: any other status but 200 raises UnsupportedStatusCode
OnOther(m) == [m EXCEPT !.pc = "unsupported"]

\* lines 143-170: one requests.get and what the loop does with its response
OnResponse(m, s) ==
    LET got == [m EXCEPT !.status = s, !.gets = @ + 1]
    IN  IF s = STATUS_CODE_FORBIDDEN THEN OnForbidden(got)
        ELSE IF s = STATUS_CODE_SERVICE_UNAVAILABLE THEN OnUnavailable(got)
        ELSE IF s # STATUS_CODE_SUCCESS THEN OnOther(got)
        ELSE [got EXCEPT !.pc = "returned"]

\* lines 148, 158: the sleep ends, continue
AfterSleep(m) ==
    [m EXCEPT !.pc = "get", !.dur = 0,
              !.cooldowns = IF m.dur = COOLDOWN_TIME THEN @ + 1 ELSE @,
              !.retries = IF m.dur = RETRY_TIMER THEN @ + 1 ELSE @]

\* the frame of a call that is over: only its outcome is left
Ended(m) == [IdleRequest EXCEPT !.pc = m.pc]

Raised(m) == m.pc \in {"unsupported", "unavailable"}

\* thread t issues its request and the server answers with status s
MrGet(t, s) ==
    /\ mr[t].pc = "get"
    /\ MayAnswer(s)
    /\ mr' = [mr EXCEPT ![t] = OnResponse(@, s)]

MrSleep(t) ==
    /\ mr[t].pc = "sleep"
    /\ mr' = [mr EXCEPT ![t] = AfterSleep(@)]

(***************************************************************************)
(* CveFetcher.fetch_days_back.  A datetime is [day, ms, us]: the day, the  *)
(* millisecond within the day and the microsecond within the millisecond.  *)
(***************************************************************************)
\* end_date - timedelta(days=n)
MinusDays(dt, n) == [dt EXCEPT !.day = @ - n]

\* isoformat(timespec='milliseconds'): the microseconds are cut off
IsoFormat(dt) == <<dt.day, dt.ms>>

\* the window is not clamped to the server's maximum
DaysToFetchNoClamp(dl) == dl

\* the days that do not fill a window are fetched first
DaysToFetchRemainderFirst(dl) ==
    IF dl % MAX_CONSECUTIVE_DAYS # 0
    THEN dl % MAX_CONSECUTIVE_DAYS
    ELSE Min(dl, MAX_CONSECUTIVE_DAYS)

\* line 88
DaysToFetch(dl) == Min(dl, MAX_CONSECUTIVE_DAYS)

\* line 99
LastFetch(dl) == IF dl > 0 THEN FALSE ELSE TRUE

\* the run in progress: the number of fetch() calls issued so far
Run == Len(windows)
CurLastFetch == windows[Run].last_fetch

\* lines 87-100: one iteration of the loop up to the call of fetch(), or the
\* return when days_left is 0
FetchDaysBackLoop ==
    /\ cpc = "loop"
    /\ IF days_left # 0
       THEN LET days_to_fetch == DaysToFetch(days_left)
                start_date == MinusDays(end_date, days_to_fetch)
                request_params == [start |-> IsoFormat(start_date),
                                   end |-> IsoFormat(end_date)]
            IN  /\ end_date' = start_date
                /\ days_left' = days_left - days_to_fetch
                /\ windows' = Append(windows,
                       [params |-> request_params,
                        days |-> days_to_fetch,
                        last_fetch |-> LastFetch(days_left - days_to_fetch)])
                /\ cpc' = "first_request"
                /\ mr' = [mr EXCEPT ![Main] = NewRequest(request_params)]
                /\ response' = [total |-> 0, start |-> 0, per |-> 1]
                /\ params_queue' = <<>>
                /\ unfinished' = 0
                /\ thread_count' = 0
                /\ started' = 0
                /\ requested' = {}
                /\ ncalls' = 0
                /\ failed' = {}
       ELSE /\ cpc' = "returned"
            /\ UNCHANGED <<rangeVars, runVars, histVars, mr>>
    /\ UNCHANGED <<argVars, wk, pending, output_queue, sinkVars, srv>>

(***************************************************************************)
(* CveFetcher._create_page_params_queue and Fetcher._fetch, fetch,         *)
(* _finalize_fetch (the main thread inside one run).                       *)
(***************************************************************************)
\* the page count rounded down instead of up
CreatePageParamsQueueFloor(resp) ==
    LET total_pages == (resp.total - resp.start) \div resp.per
    IN  IF total_pages <= 1 THEN <<>>
        ELSE [page_index \in 1..(total_pages - 1) |->
                 resp.start + (resp.per * page_index)]

\* cve_fetcher.py lines 53-71: the offsets put in the queue, in order
CreatePageParamsQueue(resp) ==
    LET total_pages == Ceil(resp.total - resp.start, resp.per)
    IN  IF total_pages <= 1 THEN <<>>
        ELSE [page_index \in 1..(total_pages - 1) |->
                 resp.start + (resp.per * page_index)]

\* cve_fetcher.py lines 45-46: put the next entry of the response, if any
PutNext(q, cves) == IF cves # <<>> THEN Append(q, Head(cves)) ELSE q
Rest(cves) == IF cves # <<>> THEN Tail(cves) ELSE cves

\* one thread for each task, however many
ThreadCountPerTask(qsize) == qsize

\* fetcher.py line 221
ThreadCount(qsize) == Min(qsize, MAX_WORKERS)

\* fetcher.py lines 185-186, 194: what fetch() puts after _fetch returned
FinalizeFetch(last_fetch, q) == IF last_fetch THEN Append(q, None) ELSE q

\* the pagination data the server may report for a window
ResponseData ==
    { [total |-> t, start |-> st, per |-> p] :
        t \in 0..srv.data, st \in 0..srv.maxstart, p \in 1..srv.maxper }

\* line 209: one requests.get of the first page.  A 200 response carries
\* the pagination data and the entries of the first page.
CoordRequest ==
    /\ cpc = "first_request"
    /\ \E s \in Statuses :
        /\ MrGet(Main, s)
        /\ IF s = STATUS_CODE_SUCCESS
           THEN \E d \in ResponseData :
                    /\ response' = d
                    /\ pending' = [pending EXCEPT
                                     ![Main] = PageEntries(Run, d.start, d)]
                    /\ srv' = [srv EXCEPT !.data = @ - d.total]
           ELSE /\ srv' = Charge(s)
                /\ UNCHANGED <<response, pending>>
    /\ UNCHANGED <<argVars, cpc, rangeVars, params_queue, unfinished,
                   thread_count, started, wk, output_queue, sinkVars,
                   histVars>>

\* lines 148, 158 in the first request
CoordSleep ==
    /\ cpc = "first_request"
    /\ MrSleep(Main)
    /\ UNCHANGED <<argVars, cpc, rangeVars, runVars, wk, pending,
                   output_queue, sinkVars, srv, histVars>>

\* QueryFailed is not caught in _fetch: it ends fetch_days_back
CoordFirstFailedPropagates ==
    /\ cpc = "first_request"
    /\ Raised(mr[Main])
    /\ cpc' = "returned"
    /\ mr' = [mr EXCEPT ![Main] = Ended(@)]
    /\ UNCHANGED <<argVars, rangeVars, runVars, wk, pending, output_queue,
                   sinkVars, srv, histVars>>

\* lines 210-213: the first request raised QueryFailed, _fetch returns
CoordFirstFailed ==
    /\ cpc = "first_request"
    /\ Raised(mr[Main])
    /\ cpc' = "fetch_end"
    /\ mr' = [mr EXCEPT ![Main] = Ended(@)]
    /\ UNCHANGED <<argVars, rangeVars, runVars, wk, pending, output_queue,
                   sinkVars, srv, histVars>>

\* line 214, cve_fetcher.py lines 43-46: one put of the loop over the first
\* page's entries; after the last one _parse_response returns
CoordParse ==
    /\ cpc = "first_request"
    /\ mr[Main].pc = "returned"
    /\ output_queue' = PutNext(output_queue, pending[Main])
    /\ pending' = [pending EXCEPT ![Main] = Rest(@)]
    /\ IF Len(pending[Main]) <= 1
       THEN /\ cpc' = "discover"
            /\ mr' = [mr EXCEPT ![Main] = Ended(@)]
       ELSE UNCHANGED <<cpc, mr>>
    /\ UNCHANGED <<argVars, rangeVars, runVars, wk, sinkVars, srv, histVars>>

\* line 214, cve_fetcher.py line 43: the body of the first page is no JSON
\* or has no 'vulnerabilities': response.json()[CVE_KEY] raises before
\* anything is put, and nothing up to main() catches it
CoordParseError ==
    /\ cpc = "first_request"
    /\ mr[Main].pc = "returned"
    /\ pending[Main] = PageEntries(Run, response.start, response)
    /\ cpc' = "raised"
    /\ mr' = [mr EXCEPT ![Main] = Ended(@)]
    /\ pending' = [pending EXCEPT ![Main] = <<>>]
    /\ UNCHANGED <<argVars, rangeVars, runVars, wk, output_queue, sinkVars,
                   srv, histVars>>

\* lines 218-221: build the queue of page offsets, compute thread_count
CoordDiscover ==
    /\ cpc = "discover"
    /\ LET q == CreatePageParamsQueue(response)
       IN  /\ params_queue' = q
           /\ unfinished' = Len(q)
           /\ thread_count' = IF q # <<>> THEN ThreadCount(Len(q)) ELSE 0
           /\ cpc' = IF q # <<>> THEN "start" ELSE "fetch_end"
    /\ UNCHANGED <<argVars, rangeVars, response, started, wk, mr, pending,
                   output_queue, sinkVars, srv, histVars>>

\* lines 223-229: start the next worker thread
CoordStartWorker ==
    /\ cpc = "start"
    /\ started < thread_count
    /\ started' = started + 1
    /\ wk' = [wk EXCEPT ![started + 1] =
                 [pc |-> "get_first", run |-> Run, page |-> -1]]
    /\ mr' = [mr EXCEPT ![started + 1] = IdleRequest]
    /\ pending' = [pending EXCEPT ![started + 1] = <<>>]
    /\ UNCHANGED <<argVars, cpc, rangeVars, response, params_queue, unfinished,
                   thread_count, output_queue, sinkVars, srv, histVars>>

\* the coordinator goes on without waiting for the workers
CoordJoinNoWait ==
    /\ cpc = "start"
    /\ started = thread_count
    /\ cpc' = "fetch_end"
    /\ UNCHANGED <<argVars, rangeVars, runVars, wk, mr, pending, output_queue,
                   sinkVars, srv, histVars>>

\* the coordinator waits for the queue to be empty, not for the
\* acknowledgements
CoordJoinQueueEmpty ==
    /\ cpc = "start"
    /\ started = thread_count
    /\ params_queue = <<>>
    /\ cpc' = "fetch_end"
    /\ UNCHANGED <<argVars, rangeVars, runVars, wk, mr, pending, output_queue,
                   sinkVars, srv, histVars>>

\* line 230: params_queue.join() returns once every task is acknowledged
CoordJoin ==
    /\ cpc = "start"
    /\ started = thread_count
    /\ unfinished = 0
    /\ cpc' = "fetch_end"
    /\ UNCHANGED <<argVars, rangeVars, runVars, wk, mr, pending, output_queue,
                   sinkVars, srv, histVars>>

\* the fetch is finalized only when its first request succeeded
FetchEndOnSuccess ==
    /\ cpc = "fetch_end"
    /\ output_queue' = FinalizeFetch(CurLastFetch /\ ~Raised(mr[Main]),
                                     output_queue)
    /\ cpc' = "loop"
    /\ UNCHANGED <<argVars, rangeVars, runVars, wk, mr, pending, sinkVars,
                   srv, histVars>>

\* lines 185-186: _fetch has returned; finalize when this is the last fetch
FetchEnd ==
    /\ cpc = "fetch_end"
    /\ output_queue' = FinalizeFetch(CurLastFetch, output_queue)
    /\ cpc' = "loop"
    /\ UNCHANGED <<argVars, rangeVars, runVars, wk, mr, pending, sinkVars,
                   srv, histVars>>

(***************************************************************************)
(* Fetcher._fetch_worker.  A worker is [pc, run, page]; run names the      *)
(* queue it was handed (the queue of an earlier run is empty for good).    *)
(*   pc: "none" | "get_first" | "request" | "task_done" | "get_next" |     *)
(*       "sleep" | "exit"                                                  *)
(***************************************************************************)
QueueOf(w) == IF wk[w].run = Run THEN params_queue ELSE <<>>

FullParams(w, page) ==
    [start |-> windows[wk[w].run].params.start,
     end |-> windows[wk[w].run].params.end,
     startIndex |-> page]

\* the worker reads the head of the queue and leaves it there
WorkerGetFirstPeek(w) ==
    /\ wk[w].pc = "get_first"
    /\ IF QueueOf(w) = <<>>
       THEN /\ wk' = [wk EXCEPT ![w].pc = "exit"]
            /\ UNCHANGED <<mr, histVars>>
       ELSE /\ wk' = [wk EXCEPT ![w].pc = "request",
                                ![w].page = Head(params_queue)]
            /\ mr' = [mr EXCEPT ![w] = NewRequest(
                         FullParams(w, Head(params_queue)))]
            /\ requested' = requested \cup {Head(params_queue)}
            /\ ncalls' = ncalls + 1
            /\ UNCHANGED failed
    /\ UNCHANGED <<argVars, cpc, rangeVars, runVars, pending, output_queue,
                   sinkVars, srv>>

\* lines 247-251: the first non-blocking get
WorkerGetFirst(w) ==
    /\ wk[w].pc = "get_first"
    /\ IF QueueOf(w) = <<>>
       THEN /\ wk' = [wk EXCEPT ![w].pc = "exit"]
            /\ UNCHANGED <<params_queue, mr, histVars>>
       ELSE /\ wk' = [wk EXCEPT ![w].pc = "request",
                                ![w].page = Head(params_queue)]
            /\ params_queue' = Tail(params_queue)
            /\ mr' = [mr EXCEPT ![w] = NewRequest(
                         FullParams(w, Head(params_queue)))]
            /\ requested' = requested \cup {Head(params_queue)}
            /\ ncalls' = ncalls + 1
            /\ UNCHANGED failed
    /\ UNCHANGED <<argVars, cpc, rangeVars, response, unfinished, thread_count,
                   started, pending, output_queue, sinkVars, srv>>

\* line 257: one requests.get of the page
WorkerRequest(w) ==
    /\ wk[w].pc = "request"
    /\ \E s \in Statuses :
        /\ MrGet(w, s)
        /\ srv' = Charge(s)
        /\ pending' = IF s = STATUS_CODE_SUCCESS
                      THEN [pending EXCEPT
                              ![w] = PageEntries(wk[w].run, wk[w].page,
                                                 response)]
                      ELSE pending
    /\ UNCHANGED <<argVars, cpc, rangeVars, runVars, wk, output_queue,
                   sinkVars, histVars>>

\* lines 148, 158 in a page request
WorkerRetrySleep(w) ==
    /\ wk[w].pc = "request"
    /\ MrSleep(w)
    /\ UNCHANGED <<argVars, cpc, rangeVars, runVars, wk, pending,
                   output_queue, sinkVars, srv, histVars>>

\* QueryFailed is not caught: the worker thread dies holding its task
WorkerFailedExits(w) ==
    /\ wk[w].pc = "request"
    /\ Raised(mr[w])
    /\ failed' = failed \cup {wk[w].page}
    /\ wk' = [wk EXCEPT ![w].pc = "exit"]
    /\ mr' = [mr EXCEPT ![w] = IdleRequest]
    /\ UNCHANGED <<argVars, cpc, rangeVars, runVars, pending, output_queue,
                   sinkVars, srv, requested, ncalls>>

\* lines 258-261: QueryFailed is caught and logged
WorkerFailed(w) ==
    /\ wk[w].pc = "request"
    /\ Raised(mr[w])
    /\ failed' = failed \cup {wk[w].page}
    /\ wk' = [wk EXCEPT ![w].pc = "task_done"]
    /\ mr' = [mr EXCEPT ![w] = IdleRequest]
    /\ UNCHANGED <<argVars, cpc, rangeVars, runVars, pending, output_queue,
                   sinkVars, srv, requested, ncalls>>

\* line 263, cve_fetcher.py lines 43-46: one put of the loop over the
\* page's entries; after the last one _parse_response returns
WorkerParse(w) ==
    /\ wk[w].pc = "request"
    /\ mr[w].pc = "returned"
    /\ output_queue' = PutNext(output_queue, pending[w])
    /\ pending' = [pending EXCEPT ![w] = Rest(@)]
    /\ IF Len(pending[w]) <= 1
       THEN /\ wk' = [wk EXCEPT ![w].pc = "task_done"]
            /\ mr' = [mr EXCEPT ![w] = IdleRequest]
       ELSE UNCHANGED <<wk, mr>>
    /\ UNCHANGED <<argVars, cpc, rangeVars, runVars, sinkVars, srv, histVars>>

\* line 263, cve_fetcher.py line 43: the body of the page is no JSON or has
\* no 'vulnerabilities': response.json()[CVE_KEY] raises before anything is
\* put; the else branch of the try catches nothing, so the exception ends
\* the worker thread before line 266
WorkerParseError(w) ==
    /\ wk[w].pc = "request"
    /\ mr[w].pc = "returned"
    /\ pending[w] = PageEntries(wk[w].run, wk[w].page, response)
    /\ wk' = [wk EXCEPT ![w].pc = "dead"]
    /\ mr' = [mr EXCEPT ![w] = IdleRequest]
    /\ pending' = [pending EXCEPT ![w] = <<>>]
    /\ UNCHANGED <<argVars, cpc, rangeVars, runVars, output_queue, sinkVars,
                   srv, histVars>>

\* line 266: page_params_queue.task_done()
WorkerTaskDone(w) ==
    /\ wk[w].pc = "task_done"
    /\ unfinished' = unfinished - 1
    /\ wk' = [wk EXCEPT ![w].pc = "get_next"]
    /\ UNCHANGED <<argVars, cpc, rangeVars, response, params_queue,
                   thread_count, started, mr, pending, output_queue, sinkVars,
                   srv, histVars>>

\* the worker goes on to the next request without the cooldown
WorkerGetNextNoCooldown(w) ==
    /\ wk[w].pc = "get_next"
    /\ IF QueueOf(w) = <<>>
       THEN /\ wk' = [wk EXCEPT ![w].pc = "exit"]
            /\ UNCHANGED <<params_queue, mr, histVars>>
       ELSE /\ wk' = [wk EXCEPT ![w].pc = "request",
                                ![w].page = Head(params_queue)]
            /\ params_queue' = Tail(params_queue)
            /\ mr' = [mr EXCEPT ![w] = NewRequest(
                         FullParams(w, Head(params_queue)))]
            /\ requested' = requested \cup {Head(params_queue)}
            /\ ncalls' = ncalls + 1
            /\ UNCHANGED failed
    /\ UNCHANGED <<argVars, cpc, rangeVars, response, unfinished, thread_count,
                   started, pending, output_queue, sinkVars, srv>>

\* lines 267-271: the next non-blocking get
WorkerGetNext(w) ==
    /\ wk[w].pc = "get_next"
    /\ IF QueueOf(w) = <<>>
       THEN /\ wk' = [wk EXCEPT ![w].pc = "exit"]
            /\ UNCHANGED params_queue
       ELSE /\ wk' = [wk EXCEPT ![w].pc = "sleep",
                                ![w].page = Head(params_queue)]
            /\ params_queue' = Tail(params_queue)
    /\ UNCHANGED <<argVars, cpc, rangeVars, response, unfinished, thread_count,
                   started, mr, pending, output_queue, sinkVars, srv,
                   histVars>>

\* line 272, then lines 255-257: the cooldown ends, call make_request
WorkerCooldown(w) ==
    /\ wk[w].pc = "sleep"
    /\ wk' = [wk EXCEPT ![w].pc = "request"]
    /\ mr' = [mr EXCEPT ![w] = NewRequest(FullParams(w, wk[w].page))]
    /\ requested' = requested \cup {wk[w].page}
    /\ ncalls' = ncalls + 1
    /\ UNCHANGED <<argVars, cpc, rangeVars, runVars, pending, output_queue,
                   sinkVars, srv, failed>>

(***************************************************************************)
(* SaveFileParser.run (the sink thread).  A file is [lines, closed].       *)
(*   spc: "get_first" | "get" (blocked in input_queue.get) | "done"        *)
(***************************************************************************)
\* json.dumps(entry): the text of the entry; None becomes the text null
JsonDumps(e) == IF e = None THEN "null" ELSE <<"json", e>>

\* a new file is opened for every entry
OpenAlways(fs, count) == Append(fs, [lines |-> <<>>, closed |-> FALSE])

\* lines 49-54: open a new file when entry_count is 0
OpenIfNeeded(fs, count) ==
    IF 0 = count THEN Append(fs, [lines |-> <<>>, closed |-> FALSE]) ELSE fs

\* lines 55-56: write the entry and a newline to the open file
WriteLine(fs, e) ==
    [fs EXCEPT ![Len(fs)].lines = Append(@, JsonDumps(e))]

\* lines 64, 70: output.close()
CloseLast(fs) == [fs EXCEPT ![Len(fs)].closed = TRUE]

\* the file is closed when it is full before the entry is written
WriteEntryCloseFirst(fs, count, e, max) ==
    IF count + 1 = max
    THEN [files |-> CloseLast(OpenIfNeeded(fs, count)), entry_count |-> 0]
    ELSE [files |-> WriteLine(OpenIfNeeded(fs, count), e),
          entry_count |-> count + 1]

\* lines 49-65: one pass of the loop body: write the entry, close the file
\* when it is full.  The result is [files, entry_count].
WriteEntry(fs, count, e, max) ==
    LET written == WriteLine(OpenIfNeeded(fs, count), e)
    IN  IF count + 1 = max
        THEN [files |-> CloseLast(written), entry_count |-> 0]
        ELSE [files |-> written, entry_count |-> count + 1]

\* line 67: the test that ends the loop
EndOfQueue(e) == e = None

\* lines 46-66: the first blocking get returns; the loop body runs with the
\* value taken, whatever it is, up to the next get
SinkGetFirst ==
    /\ spc = "get_first"
    /\ output_queue # <<>>
    /\ LET e == Head(output_queue)
           w == WriteEntry(files, entry_count, e, max_entries)
       IN  /\ entry' = e
           /\ output_queue' = Tail(output_queue)
           /\ taken' = Append(taken, e)
           /\ files' = w.files
           /\ entry_count' = w.entry_count
           /\ total_entries' = total_entries + 1
           /\ spc' = "get"
    /\ UNCHANGED <<argVars, cpc, rangeVars, runVars, wk, mr, pending, srv,
                   histVars>>

\* lines 66-70, 49-65: the blocking get returns; None closes the file and
\* ends the thread, any other value is written
SinkGet ==
    /\ spc = "get"
    /\ output_queue # <<>>
    /\ LET e == Head(output_queue)
           w == WriteEntry(files, entry_count, e, max_entries)
       IN  /\ entry' = e
           /\ output_queue' = Tail(output_queue)
           /\ taken' = Append(taken, e)
           /\ IF EndOfQueue(e)
              THEN /\ files' = CloseLast(files)
                   /\ spc' = "done"
                   /\ UNCHANGED <<entry_count, total_entries>>
              ELSE /\ files' = w.files
                   /\ entry_count' = w.entry_count
                   /\ total_entries' = total_entries + 1
                   /\ spc' = "get"
    /\ UNCHANGED <<argVars, cpc, rangeVars, runVars, wk, mr, pending, srv,
                   histVars>>

(***************************************************************************)
(* The pipeline: main() has started the sink thread and calls              *)
(* fetch_days_back(days_back).                                             *)
(***************************************************************************)
Start(db, k, now, budget) ==
    /\ days_back = db
    /\ max_entries = k
    /\ cpc = "loop"
    /\ days_left = db
    /\ end_date = now
    /\ windows = <<>>
    /\ response = [total |-> 0, start |-> 0, per |-> 1]
    /\ params_queue = <<>>
    /\ unfinished = 0
    /\ thread_count = 0
    /\ started = 0
    /\ wk = [w \in Workers |-> [pc |-> "none", run |-> 0, page |-> -1]]
    /\ mr = [t \in Threads |-> IdleRequest]
    /\ pending = [t \in Threads |-> <<>>]
    /\ output_queue = <<>>
    /\ taken = <<>>
    /\ spc = "get_first"
    /\ entry = <<"unset">>
    /\ entry_count = 0
    /\ total_entries = 0
    /\ files = <<>>
    /\ srv = budget
    /\ requested = {}
    /\ ncalls = 0
    /\ failed = {}

\* datetime.now().astimezone() at the call
Epoch == [day |-> 0, ms |-> 0, us |-> 0]
NowSet == { [day |-> 0, ms |-> m, us |-> u] : m \in 0..1, u \in 0..1 }

DaysBackSet == {0, 1, MAX_CONSECUTIVE_DAYS + 1}

\* What the server may answer in one execution: f403, f503, fother are the
\* 403, 503 and other non-success responses it may give; data the entries
\* it may report in all; maxper and maxstart the largest resultsPerPage and
\* startIndex it may report.
Budget(f403, f503, fother, data, maxper, maxstart) ==
    [f403 |-> f403, f503 |-> f503, fother |-> fother, data |-> data,
     maxper |-> maxper, maxstart |-> maxstart]

\* a rate limit and an unsupported status somewhere in the execution
Faulty(data, maxper) == Budget(1, 0, 1, data, maxper, 0)
\* an outage: up to MAX_RETRIES 503 responses, pages of one entry
Outage(data) == Budget(0, MAX_RETRIES, 0, data, 1, 0)

Next ==
    \/ FetchDaysBackLoop
    \/ CoordRequest
    \/ CoordSleep
    \/ CoordFirstFailed
    \/ CoordParse
    \/ CoordDiscover
    \/ CoordStartWorker
    \/ CoordJoin
    \/ FetchEnd
    \/ \E w \in Workers :
        \/ WorkerGetFirst(w)
        \/ WorkerRequest(w)
        \/ WorkerRetrySleep(w)
        \/ WorkerFailed(w)
        \/ WorkerParse(w)
        \/ WorkerTaskDone(w)
        \/ WorkerGetNext(w)
        \/ WorkerCooldown(w)
    \/ SinkGetFirst
    \/ SinkGet

Init ==
    \E db \in DaysBackSet, k \in 1..MaxBatch :
        Start(db, k, Epoch, Faulty(SinkMaxTotal, MaxPerPage))

Spec == Init /\ [][Next]_vars

(***************************************************************************)
(* The pipeline against a server that answers every request with 200: no   *)
(* request is retried and none fails.                                      *)
(***************************************************************************)
Healthy(data, maxper) == Budget(0, 0, 0, data, maxper, 0)

NextHealthy ==
    \/ FetchDaysBackLoop
    \/ CoordRequest
    \/ CoordParse
    \/ CoordDiscover
    \/ CoordStartWorker
    \/ CoordJoin
    \/ FetchEnd
    \/ \E w \in Workers :
        \/ WorkerGetFirst(w)
        \/ WorkerRequest(w)
        \/ WorkerParse(w)
        \/ WorkerTaskDone(w)
        \/ WorkerGetNext(w)
        \/ WorkerCooldown(w)
    \/ SinkGetFirst
    \/ SinkGet

InitHealthy ==
    \E db \in DaysBackSet, k \in 1..MaxBatch :
        Start(db, k, Epoch, Healthy(SinkMaxTotal, MaxPerPage))

SpecHealthy == InitHealthy /\ [][NextHealthy]_vars

(***************************************************************************)
(* The pipeline with files of MaxBatch entries, for the spans that have at *)
(* least one window.                                                       *)
(***************************************************************************)
InitBatch ==
    \E db \in DaysBackSet \ {0} :
        Start(db, MaxBatch, Epoch, Faulty(SinkMaxTotal, MaxPerPage))

SpecBatch == InitBatch /\ [][Next]_vars

(***************************************************************************)
(* The fetch side alone: the threads that put on the output queue.  None   *)
(* of their steps reads what the sink writes (put never blocks, the queue  *)
(* is unbounded), and no sink step changes PutLog.                         *)
(***************************************************************************)
NextFetch ==
    \/ FetchDaysBackLoop
    \/ CoordRequest
    \/ CoordSleep
    \/ CoordFirstFailed
    \/ CoordParse
    \/ CoordDiscover
    \/ CoordStartWorker
    \/ CoordJoin
    \/ FetchEnd
    \/ \E w \in Workers :
        \/ WorkerGetFirst(w)
        \/ WorkerRequest(w)
        \/ WorkerRetrySleep(w)
        \/ WorkerFailed(w)
        \/ WorkerParse(w)
        \/ WorkerTaskDone(w)
        \/ WorkerGetNext(w)
        \/ WorkerCooldown(w)

InitFetch ==
    \/ \E db \in DaysBackSet : Start(db, 1, Epoch, Faulty(MaxTotal, MaxPerPage))
    \/ Start(1, 1, Epoch, Outage(MAX_WORKERS + 1))

SpecFetch == InitFetch /\ [][NextFetch]_vars

(***************************************************************************)
(* The fetch side during a long outage: a one-day fetch of up to three     *)
(* pages of one entry (two tasks, two workers) against a server that may   *)
(* answer 503 often enough for one request to be given up after others     *)
(* were retried, and 403 up to MaxOutage403 times.                         *)
(***************************************************************************)
LongOutage(data) == Budget(MaxOutage403, 2 * MAX_RETRIES - 1, 0, data, 1, 0)

InitRetry == Start(1, 1, Epoch, LongOutage(3))

SpecRetry == InitRetry /\ [][NextFetch]_vars

(***************************************************************************)
(* The fetch side of a one-day fetch against a server whose 200 responses  *)
(* may carry a body that _parse_response cannot read.                      *)
(***************************************************************************)
NextParse ==
    \/ NextFetch
    \/ CoordParseError
    \/ \E w \in Workers : WorkerParseError(w)

InitParse ==
    \/ Start(1, 1, Epoch, Faulty(MaxTotal, MaxPerPage))
    \/ Start(1, 1, Epoch, Outage(MAX_WORKERS + 1))

SpecParse == InitParse /\ [][NextParse]_vars

(***************************************************************************)
(* make_request alone: the first request of a one-day fetch, against a     *)
(* server that may answer anything, with at most Max403 403 responses.     *)
(***************************************************************************)
NextRequest ==
    \/ FetchDaysBackLoop
    \/ CoordRequest
    \/ CoordSleep

InitRequest ==
    Start(1, 1, Epoch, Budget(Max403, MAX_RETRIES + 1, 1, 0, 1, 0))

SpecRequest == InitRequest /\ [][NextRequest]_vars

(***************************************************************************)
(* fetch_days_back alone: every days_back up to MaxDaysBack, against a     *)
(* server that has no entry to report and may refuse any first page.       *)
(***************************************************************************)
NextRange ==
    \/ FetchDaysBackLoop
    \/ CoordRequest
    \/ CoordFirstFailed
    \/ CoordParse
    \/ CoordDiscover
    \/ FetchEnd

InitRange ==
    \E db \in 0..MaxDaysBack, now \in NowSet :
        Start(db, 1, now, Budget(0, 0, MaxDaysBack, 0, 1, 0))

SpecRange == InitRange /\ [][NextRange]_vars

(***************************************************************************)
(* _create_page_params_queue alone: _fetch has put the entries of the      *)
(* first page of a one-day fetch and is about to build the queue, for      *)
(* every pagination data within the PageMax bounds.                        *)
(***************************************************************************)
Discovering(d) ==
    /\ days_back = 1
    /\ max_entries = 1
    /\ cpc = "discover"
    /\ days_left = 0
    /\ end_date = MinusDays(Epoch, 1)
    /\ windows = << [params |-> [start |-> IsoFormat(MinusDays(Epoch, 1)),
                                 end |-> IsoFormat(Epoch)],
                     days |-> 1, last_fetch |-> TRUE] >>
    /\ response = d
    /\ params_queue = <<>>
    /\ unfinished = 0
    /\ thread_count = 0
    /\ started = 0
    /\ wk = [w \in Workers |-> [pc |-> "none", run |-> 0, page |-> -1]]
    /\ mr = [t \in Threads |-> IdleRequest]
    /\ pending = [t \in Threads |-> <<>>]
    /\ output_queue = PageEntries(1, d.start, d)
    /\ taken = <<>>
    /\ spc = "get_first"
    /\ entry = <<"unset">>
    /\ entry_count = 0
    /\ total_entries = 0
    /\ files = <<>>
    /\ srv = Budget(0, 0, 0, 0, d.per, d.start)
    /\ requested = {}
    /\ ncalls = 0
    /\ failed = {}

NextPages == CoordDiscover

InitPages ==
    \E t \in 0..PageMaxTotal, st \in 0..PageMaxStart, p \in 1..PageMaxPer :
        Discovering([total |-> t, start |-> st, per |-> p])

SpecPages == InitPages /\ [][NextPages]_vars

(***************************************************************************)
(* Properties.                                                             *)
(***************************************************************************)
Last(q) == q[Len(q)]
IsNone(v) == v = None
NoneCount(q) == Cardinality({i \in 1..Len(q) : IsNone(q[i])})
\* every line written to a file
Lines ==
    UNION { {files[i].lines[j] : j \in 1..Len(files[i].lines)} :
            i \in 1..Len(files) }
\* the entries put on the output queue before None, or all of them
EntriesPut == Cardinality({i \in 1..Len(PutLog) : ~IsNone(PutLog[i])})
\* the least n with n * b >= a, for a >= 0 and b >= 1
LeastCover(a, b) == CHOOSE n \in 0..a : n * b >= a /\ (n = 0 \/ (n - 1) * b < a)

\* C1: for every days_back >= 0 and every outcome of the requests,
\* fetch_days_back puts exactly one None on the output queue: never more
\* than one, and exactly one once it has returned.
C1_ExactlyOneEndOfStream ==
    /\ NoneCount(PutLog) <= 1
    /\ cpc = "returned" => NoneCount(PutLog) = 1

\* C2: when the sink takes None, at any position of the stream, the first
\* included, it terminates without waiting for another value, and None is
\* never written to a file as an entry.
C2_EndOfStreamEndsSink ==
    /\ (taken # <<>> /\ IsNone(Last(taken))) => spc = "done"
    /\ JsonDumps(None) \notin Lines

\* C3: None is the last value ever put on the output queue: it is nowhere
\* but at the end of what was put, and once it is put nothing is put.
NoneOnlyLast == \A i \in 1..Len(PutLog) : IsNone(PutLog[i]) => i = Len(PutLog)
C3_EndOfStreamLast ==
    /\ []NoneOnlyLast
    /\ [][NoneCount(PutLog) > 0 => PutLog' = PutLog]_vars

\* C3 happens: None was put after the entries of a first page and of pages
\* fetched by workers.
C3_Witness ==
    /\ cpc = "returned"
    /\ Len(PutLog) >= 4
    /\ IsNone(Last(PutLog))
    /\ ncalls >= 2

\* C4: with batch size k and n entries put before None, the sink produces
\* ceil(n/k) files, each of k entries but the last, which has 1 to k.
C4_Batches ==
    (taken # <<>> /\ IsNone(Last(taken))) =>
        /\ Len(files) = LeastCover(EntriesPut, max_entries)
        /\ \A i \in 1..Len(files) :
            /\ i < Len(files) => Len(files[i].lines) = max_entries
            /\ Len(files[i].lines) \in 1..max_entries

\* C5: for days_back > MAX_CONSECUTIVE_DAYS the fetch() calls issued are
\* ceil(days_back / MAX_CONSECUTIVE_DAYS) windows of at most
\* MAX_CONSECUTIVE_DAYS days each, the start of each the end of the next
\* one issued, the first ending now, together days_back days; last_fetch is
\* true for the last call issued and for no other.
SpanDays(w) == w.params.end[1] - w.params.start[1]
WholeDays(w) == w.params.end[2] = w.params.start[2]
C5_Windows ==
    days_back > MAX_CONSECUTIVE_DAYS =>
        /\ \A i \in 1..Len(windows) :
            /\ WholeDays(windows[i])
            /\ SpanDays(windows[i]) \in 1..MAX_CONSECUTIVE_DAYS
            /\ i < Len(windows) =>
                /\ windows[i].params.start = windows[i + 1].params.end
                /\ ~windows[i].last_fetch
        /\ Len(windows) > 0 =>
            /\ windows[1].params.end[1] - windows[Len(windows)].params.start[1]
                   = days_back - days_left
            /\ windows[Len(windows)].last_fetch <=> days_left = 0
        /\ cpc = "returned" =>
            /\ Len(windows) = LeastCover(days_back, MAX_CONSECUTIVE_DAYS)
            /\ windows[1].params.end[1] - windows[Len(windows)].params.start[1]
                   = days_back
            /\ windows[Len(windows)].last_fetch

\* C5 happens: a span that is no multiple of the maximum was fetched in three
\* windows, the last one shorter.
C5_Witness ==
    /\ cpc = "returned"
    /\ days_back > 2 * MAX_CONSECUTIVE_DAYS
    /\ Len(windows) = 3
    /\ SpanDays(windows[3]) < MAX_CONSECUTIVE_DAYS
    /\ end_date.us # 0

\* C6: make_request raises UnavailableService only after the request was
\* answered 503 and retried MAX_RETRIES times; a request answered 503 and
\* retried fewer times is still in progress.
C6_RetriesBeforeUnavailable ==
    mr[Main].pc = "unavailable" => mr[Main].retries = MAX_RETRIES

\* C7: in make_request every 403 response is followed by one sleep of
\* COOLDOWN_TIME and then the same request again; a 403 never ends the call
\* and never counts as an attempt, however many there are.
Got(status) ==
    /\ mr[Main].pc = "get"
    /\ mr'[Main].gets = mr[Main].gets + 1
    /\ mr'[Main].status = status
Forbiddens == Max403 - srv.f403
C7_ForbiddenCooldown ==
    /\ [][Got(STATUS_CODE_FORBIDDEN) =>
            /\ mr'[Main].pc = "sleep"
            /\ mr'[Main].dur = COOLDOWN_TIME
            /\ mr'[Main].attempts = mr[Main].attempts
            /\ mr'[Main].params = mr[Main].params]_vars
    /\ [][(mr[Main].pc = "sleep" /\ mr[Main].dur = COOLDOWN_TIME
           /\ mr'[Main] # mr[Main]) =>
            /\ mr'[Main].pc = "get"
            /\ mr'[Main].cooldowns = mr[Main].cooldowns + 1
            /\ mr'[Main].gets = mr[Main].gets
            /\ mr'[Main].params = mr[Main].params]_vars
    /\ [](cpc = "first_request" =>
            Forbiddens = mr[Main].cooldowns
                + (IF mr[Main].pc = "sleep" /\ mr[Main].dur = COOLDOWN_TIME
                   THEN 1 ELSE 0))

\* C7 happens: the call returned after Max403 403 responses and as many
\* cooldowns, with 503 responses in between.
C7_Witness ==
    /\ mr[Main].pc = "returned"
    /\ mr[Main].cooldowns = Max403
    /\ mr[Main].retries > 0

\* C8: in make_request a response whose status is none of 200, 403, 503
\* raises UnsupportedStatusCode at once: no sleep, and no request after it.
C8_UnsupportedAtOnce ==
    /\ [][(mr[Main].pc = "get" /\ mr'[Main].gets = mr[Main].gets + 1
           /\ mr'[Main].status \in OtherStatuses) =>
            /\ mr'[Main].pc = "unsupported"
            /\ mr'[Main].dur = 0
            /\ mr'[Main].cooldowns = mr[Main].cooldowns
            /\ mr'[Main].retries = mr[Main].retries]_vars
    /\ [][mr[Main].pc = "unsupported" => mr'[Main] = mr[Main]]_vars
    /\ [](mr[Main].status \in OtherStatuses => mr[Main].pc = "unsupported")

\* C8 happens: the call raised UnsupportedStatusCode on its first response.
C8_Witness ==
    /\ mr[Main].pc = "unsupported"
    /\ mr[Main].gets = 1
    /\ mr[Main].status = 404

\* C9: for totalResults >= 0, startIndex >= 0, resultsPerPage >= 1 the queue
\* holds max(0, ceil((totalResults - startIndex) / resultsPerPage) - 1)
\* tasks, the i-th with offset startIndex + resultsPerPage * i.
ExpectedTasks(total, start, per) ==
    IF total - start <= per THEN 0
    ELSE LeastCover(total - start, per) - 1
C9_PageTasks ==
    cpc \in {"start", "fetch_end"} =>
        /\ Len(params_queue)
             = ExpectedTasks(response.total, response.start, response.per)
        /\ \A i \in 1..Len(params_queue) :
            params_queue[i] = response.start + response.per * i

\* C9 happens: totalResults 230, startIndex 0, resultsPerPage 100 gave the
\* offsets 100, 200.
C9_Witness ==
    /\ cpc = "start"
    /\ response = [total |-> 230, start |-> 0, per |-> 100]
    /\ params_queue = <<100, 200>>

\* C10: in a run whose first page succeeded a failed page request does not
\* end the run: the worker acknowledges the task and goes on, every task is
\* requested once, the barrier releases once the workers are through, and
\* the run's entries on the stream are those of the first page and of the
\* pages that did not fail.
RunTasks == CreatePageParamsQueue(response)
TaskSet == {RunTasks[i] : i \in 1..Len(RunTasks)}
Range(q) == {q[i] : i \in 1..Len(q)}
RunPut == {i \in 1..Len(PutLog) : ~IsNone(PutLog[i]) /\ PutLog[i][2] = Run}
FetchedEntries(pages) ==
    Range(PageEntries(Run, response.start, response))
        \cup UNION {Range(PageEntries(Run, o, response)) : o \in pages}
WorkersThrough ==
    \A w \in Workers : w <= started => wk[w].pc = "exit"
RunOver == cpc \in {"fetch_end", "loop", "returned"}
C10_PageFailureIsolated ==
    (Run > 0 /\ mr[Main].pc = "returned" /\ cpc # "first_request") =>
        /\ failed \subseteq requested
        /\ requested \subseteq TaskSet
        /\ ncalls = Cardinality(requested)
        /\ \A w \in Workers :
            (wk[w].run = Run /\ wk[w].pc = "request" /\ Raised(mr[w])) =>
                unfinished > 0
        /\ (cpc = "start" /\ started = thread_count /\ WorkersThrough) =>
                unfinished = 0
        /\ RunOver =>
            /\ requested = TaskSet
            /\ unfinished = 0
            /\ {PutLog[i] : i \in RunPut} = FetchedEntries(TaskSet \ failed)
            /\ Cardinality(RunPut)
                 = Cardinality(FetchedEntries(TaskSet \ failed))

\* C10 happens: a run is over in which one page failed and two others were
\* fetched.
C10_Witness ==
    /\ cpc = "fetch_end"
    /\ mr[Main].pc = "returned"
    /\ Cardinality(failed) = 1
    /\ Cardinality(requested) = 3

\* C10 happens for the other failure too: a page was given up after
\* MAX_RETRIES 503 responses and the run went on.
C10_WitnessUnavailable ==
    /\ cpc = "fetch_end"
    /\ mr[Main].pc = "returned"
    /\ srv.f503 = 0
    /\ failed # {}
    /\ requested # failed

\* C11: when the first request of a run raises UnsupportedStatusCode or
\* UnavailableService, the run starts no worker, builds no page task, makes
\* no page request and puts no entry of its window; fetch_days_back goes on
\* to the windows that are left and returns only after the last one.
FirstPageFailed == Run > 0 /\ Raised(mr[Main])
C11_FirstPageFailureAbortsRun ==
    /\ FirstPageFailed =>
        /\ started = 0
        /\ thread_count = 0
        /\ params_queue = <<>>
        /\ ncalls = 0
        /\ requested = {}
        /\ RunPut = {}
        /\ pending[Main] = <<>>
        /\ \A w \in Workers : wk[w].run # Run
        /\ cpc = "loop" => (days_left = 0 <=> CurLastFetch)
        /\ cpc = "returned" => CurLastFetch
    /\ cpc = "returned" =>
        /\ days_left = 0
        /\ Len(windows) = LeastCover(days_back, MAX_CONSECUTIVE_DAYS)

\* C11 happens: the first request of the first window was answered 404,
\* nothing was put, and the run of the second window has been issued.
C11_Witness ==
    /\ Run = 2
    /\ cpc = "first_request"
    /\ srv.fother = 0
    /\ srv.data = MaxTotal
    /\ PutLog = <<>>

\* C11 happens for the other failure too: the first request was given up
\* after MAX_RETRIES 503 responses and the run is over.
C11_WitnessUnavailable ==
    /\ cpc = "fetch_end"
    /\ mr[Main].pc = "unavailable"
    /\ PutLog = <<>>

\* C12: in every interleaving of the workers of a run each task put in
\* params_queue is claimed by one worker only and requested once: a worker
\* gets its task by taking the head off the queue, the tasks in the queue
\* and in the workers' hands are all different, and every task not yet
\* acknowledged is either in the queue or in the hands of one worker.
\* params_queue.join() returns if and only if the queue is empty and no
\* worker holds a task it has not acknowledged; by then every task was
\* requested.
Holding(w) ==
    /\ wk[w].run = Run
    /\ wk[w].pc \in {"request", "task_done", "sleep"}
Held == {w \in Workers : Holding(w)}
AllClaimedAndAcknowledged == params_queue = <<>> /\ Held = {}
C12_ClaimedOnceAndBarrier ==
    /\ [](/\ \A i, j \in 1..Len(params_queue) :
                params_queue[i] = params_queue[j] => i = j
          /\ \A w \in Held : wk[w].page \notin Range(params_queue)
          /\ \A v, w \in Held : wk[v].page = wk[w].page => v = w
          /\ unfinished = Len(params_queue) + Cardinality(Held)
          /\ ncalls = Cardinality(requested)
          /\ (cpc = "start" /\ started = thread_count) =>
                (ENABLED CoordJoin <=> AllClaimedAndAcknowledged))
    /\ [][\A w \in Workers :
            (wk'[w].run = wk[w].run /\ wk'[w].page # wk[w].page) =>
                /\ params_queue # <<>>
                /\ wk'[w].page = Head(params_queue)
                /\ params_queue' = Tail(params_queue)
                /\ wk'[w].page \notin Range(params_queue')
                /\ \A v \in Workers \ {w} : wk'[v] = wk[v]]_vars
    /\ [][(cpc = "start" /\ cpc' # "start") =>
            /\ AllClaimedAndAcknowledged
            /\ requested = TaskSet
            /\ Cardinality(TaskSet) = Len(RunTasks)]_vars

\* C12 happens: the workers are all started, three tasks were claimed, one
\* is acknowledged and each of the two workers holds another; the barrier
\* is closed.
C12_Witness ==
    /\ cpc = "start"
    /\ started = thread_count
    /\ params_queue = <<>>
    /\ Cardinality(Held) = MAX_WORKERS
    /\ unfinished = MAX_WORKERS
    /\ Len(RunTasks) = MAX_WORKERS + 1

\* C12 happens: the barrier has released after three tasks were claimed by
\* two workers.
C12_WitnessReleased ==
    /\ cpc = "fetch_end"
    /\ Len(RunTasks) = MAX_WORKERS + 1
    /\ \A w \in Workers : wk[w].run = Run /\ wk[w].page >= 0

\* C13: a run whose first page succeeded starts min(qsize, MAX_WORKERS)
\* workers, qsize the number of tasks _create_page_params_queue produced,
\* and none when there is no task; only workers of the run in progress can
\* be issuing requests (the threads left from earlier runs hold no task), so
\* never more than MAX_WORKERS workers are issuing requests.
WithTask(w) == wk[w].pc \in {"request", "task_done", "sleep"}
RunWorkers == {w \in Workers : wk[w].run = Run}
C13_WorkerCount ==
    /\ (Run > 0 /\ mr[Main].pc = "returned"
        /\ cpc \in {"start", "fetch_end", "loop", "returned"}) =>
        /\ thread_count = Min(Len(RunTasks), MAX_WORKERS)
        /\ started <= thread_count
        /\ cpc # "start" => started = thread_count
        /\ Cardinality(RunWorkers) = started
        /\ RunWorkers = 1..started
        /\ Len(RunTasks) = 0 => RunWorkers = {}
    /\ \A w \in Workers : WithTask(w) => w \in RunWorkers
    /\ Cardinality({w \in Workers : WithTask(w)}) <= thread_count
    /\ thread_count <= MAX_WORKERS

\* C13 happens: there are more tasks than MAX_WORKERS, MAX_WORKERS workers
\* were started and all of them have a request in progress.
C13_Witness ==
    /\ cpc = "start"
    /\ Len(RunTasks) > MAX_WORKERS
    /\ started = MAX_WORKERS
    /\ \A w \in Workers : wk[w].pc = "request" /\ mr[w].pc = "get"

\* C13 happens: a run with one task started one worker.
C13_WitnessOneTask ==
    /\ cpc = "fetch_end"
    /\ Len(RunTasks) = 1
    /\ started = 1

\* C13 happens: the second run is in progress while a thread of the first
\* run has not yet found the queue empty.
C13_WitnessLeftOver ==
    /\ Run = 2
    /\ cpc = "first_request"
    /\ mr[Main].gets > 0
    /\ \E w \in Workers : wk[w].run = 1 /\ wk[w].pc = "get_next"

\* the sizes of the windows in the order fetch() was called for them
IssuedSizes == [i \in 1..Len(windows) |-> SpanDays(windows[i])]
\* the sizes of the windows from the oldest end boundary to the newest
EndRank(i) ==
    Cardinality({j \in 1..Len(windows) :
                    windows[j].params.end[1] <= windows[i].params.end[1]})
ChronologicalSizes ==
    [k \in 1..Len(windows) |->
        SpanDays(windows[CHOOSE i \in 1..Len(windows) : EndRank(i) = k])]
EndsDistinct ==
    \A i, j \in 1..Len(windows) :
        windows[i].params.end[1] = windows[j].params.end[1] => i = j

\* C14 as stated: for days_back = 250 and MAX_CONSECUTIVE_DAYS = 120 there
\* are three windows whose sizes, from the oldest end boundary to the
\* newest, are 120, 120, 10 days, and the last run issued has last_fetch.
C14_OldestToNewest ==
    (days_back = 250 /\ cpc = "returned") =>
        /\ Len(windows) = 3
        /\ EndsDistinct
        /\ ChronologicalSizes = <<120, 120, 10>>
        /\ windows[Len(windows)].last_fetch

\* C14 amended: for days_back = 250 and MAX_CONSECUTIVE_DAYS = 120 there
\* are three windows whose sizes are 120, 120, 10 days in the order the
\* runs are issued, which goes backward in time: the first ends now, each
\* next one ends where the one before starts, so from the oldest end
\* boundary to the newest the sizes are 10, 120, 120.  The last run issued,
\* the oldest and shortest window, has last_fetch and the others do not.
C14_IssuedNewestFirst ==
    days_back = 250 =>
        /\ \A i \in 1..Len(windows) :
            /\ IssuedSizes[i] = <<120, 120, 10>>[i]
            /\ i > 1 => windows[i].params.end = windows[i - 1].params.start
            /\ windows[i].last_fetch <=> i = 3
        /\ Len(windows) > 0 => windows[1].params.end[1] = Epoch.day
        /\ cpc = "returned" =>
            /\ Len(windows) = 3
            /\ EndsDistinct
            /\ IssuedSizes = <<120, 120, 10>>
            /\ ChronologicalSizes = <<10, 120, 120>>

\* C14 happens: fetch_days_back(250) has returned after three runs.
C14_Witness ==
    /\ days_back = 250
    /\ cpc = "returned"
    /\ Len(windows) = 3
    /\ windows[3].last_fetch

\* C15: when _fetch has returned, fetch(params, last_fetch = True) puts
\* None on the output queue whether the first request succeeded or raised,
\* and fetch(params, last_fetch = False) puts nothing; None is put by
\* nothing else, so a run with last_fetch = False never has None on the
\* queue and a finished run with last_fetch = True always has one.
C15_EndOfStreamUnconditional ==
    /\ [][(cpc = "fetch_end" /\ cpc' # "fetch_end") =>
            PutLog' = (IF CurLastFetch THEN Append(PutLog, None)
                       ELSE PutLog)]_vars
    /\ [][NoneCount(PutLog') # NoneCount(PutLog) =>
            cpc = "fetch_end" /\ CurLastFetch]_vars
    /\ []((Run > 0 /\ ~CurLastFetch) => NoneCount(PutLog) = 0)
    /\ []((Run > 0 /\ CurLastFetch /\ cpc \in {"loop", "returned"}) =>
            /\ NoneCount(PutLog) = 1
            /\ IsNone(Last(PutLog)))

\* C15 happens: the first request of the last run failed and None was put.
C15_Witness ==
    /\ Run > 0
    /\ CurLastFetch
    /\ Raised(mr[Main])
    /\ cpc = "loop"
    /\ PutLog = <<None>>

\* C15 happens: the first request of a run that is not the last failed,
\* the fetch is over and nothing was put.
C15_WitnessNotLast ==
    /\ Run > 0
    /\ ~CurLastFetch
    /\ Raised(mr[Main])
    /\ cpc = "loop"
    /\ PutLog = <<>>

\* C15 happens: a run that is not the last succeeded with entries of three
\* pages, the fetch is over and no None was put.
C15_WitnessNotLastSucceeded ==
    /\ Run > 0
    /\ ~CurLastFetch
    /\ mr[Main].pc = "returned"
    /\ cpc = "loop"
    /\ Cardinality(requested) = 2
    /\ Len(PutLog) >= 3

\* C16: the runs of the windows do not overlap.  When fetch() is called for
\* the next window, every task of the run before is acknowledged, no worker
\* holds a task, no request is in progress and every entry fetched is on
\* the output queue; requests are made and entries are put only for the
\* window of the run in progress, so on the output queue the entries of a
\* window issued earlier all come before those of a window issued later.
WindowOf(e) == e[2]
C16_RunsDoNotOverlap ==
    /\ [][Run' # Run =>
            /\ unfinished = 0
            /\ params_queue = <<>>
            /\ \A w \in Workers : ~WithTask(w) /\ mr[w].pc \notin {"get", "sleep"}
            /\ mr[Main].pc \notin {"get", "sleep"}
            /\ \A t \in Threads : pending[t] = <<>>
            /\ (Run > 0 /\ mr[Main].pc = "returned") =>
                /\ requested = TaskSet
                /\ {PutLog[i] : i \in RunPut}
                     = FetchedEntries(TaskSet \ failed)]_vars
    /\ [](\A w \in Workers :
            /\ WithTask(w) => wk[w].run = Run
            /\ mr[w].pc \in {"get", "sleep"} =>
                /\ wk[w].run = Run
                /\ mr[w].params.start = windows[Run].params.start
                /\ mr[w].params.end = windows[Run].params.end)
    /\ [](mr[Main].pc \in {"get", "sleep"} =>
            /\ mr[Main].params = windows[Run].params
            /\ cpc = "first_request")
    /\ [](\A t \in Threads : \A i \in 1..Len(pending[t]) :
            WindowOf(pending[t][i]) = Run)
    /\ [](\A i \in 1..Len(PutLog) : ~IsNone(PutLog[i]) =>
            /\ WindowOf(PutLog[i]) <= Run
            /\ \A j \in 1..Len(PutLog) :
                (i < j /\ ~IsNone(PutLog[j])) =>
                    WindowOf(PutLog[i]) <= WindowOf(PutLog[j]))
    /\ [][\A i \in 1..Len(PutLog') :
            (i > Len(PutLog) /\ ~IsNone(PutLog'[i])) =>
                WindowOf(PutLog'[i]) = Run]_vars

\* C16 happens: the first window was fetched by two workers, the second
\* window's run is over, and the queue holds entries of both.
C16_Witness ==
    /\ Run = 2
    /\ cpc = "loop"
    /\ Len(PutLog) >= 4
    /\ ~IsNone(PutLog[4])
    /\ WindowOf(PutLog[1]) = 1
    /\ WindowOf(PutLog[3]) = 1
    /\ WindowOf(PutLog[4]) = 2
    /\ \A w \in Workers : wk[w].run = 1 /\ wk[w].page >= 0

\* C17: the count of attempts belongs to one make_request call.  Every call
\* starts with attempts = 1, whatever the calls made before it by the same
\* or another thread, and a step of one thread's call leaves the frames of
\* the other threads alone.  Within a call a 403 response leaves attempts
\* as it is and a 503 response adds one to it or, at MAX_RETRIES, ends the
\* call; so attempts is one more than the 503 responses the call has
\* received, and a call raises UnavailableService at its MAX_RETRIES-th 503
\* response however many 403 responses it received in between.
Calling(t) == mr[t].pc \in {"get", "sleep"}
Receives(t, status) ==
    /\ mr[t].pc = "get"
    /\ mr'[t].gets = mr[t].gets + 1
    /\ mr'[t].status = status
\* the frame of the call is still there (the main thread drops it when
\* _fetch has acted on the outcome)
InFrame(t) == t # Main \/ cpc = "first_request"
\* the 403 responses a call has received: a cooldown for each
ForbiddensOf(m) ==
    m.cooldowns + (IF m.pc = "sleep" /\ m.dur = COOLDOWN_TIME THEN 1 ELSE 0)
\* the 503 responses a call in progress has received
UnavailablesOf(m) == m.gets - ForbiddensOf(m)
C17_AttemptsPerRequest ==
    /\ [][\A t \in Threads :
            /\ (~Calling(t) /\ mr'[t].pc = "get") =>
                    mr'[t].attempts = 1 /\ mr'[t].gets = 0
            /\ Receives(t, STATUS_CODE_FORBIDDEN) =>
                    /\ mr'[t].attempts = mr[t].attempts
                    /\ mr'[t].pc = "sleep"
            /\ Receives(t, STATUS_CODE_SERVICE_UNAVAILABLE) =>
                    IF mr[t].attempts = MAX_RETRIES
                    THEN mr'[t].pc = "unavailable"
                    ELSE /\ mr'[t].attempts = mr[t].attempts + 1
                         /\ mr'[t].pc = "sleep"
            /\ (mr[t].pc = "sleep" /\ mr'[t] # mr[t]) =>
                    /\ mr'[t].attempts = mr[t].attempts
                    /\ mr'[t].pc = "get"
            /\ mr'[t] # mr[t] =>
                    \A u \in Threads \ {t} : mr'[u] = mr[u]]_vars
    /\ [](\A t \in Threads :
            /\ Calling(t) => mr[t].attempts = 1 + UnavailablesOf(mr[t])
            /\ (mr[t].pc = "unavailable" /\ InFrame(t)) =>
                    /\ mr[t].attempts = MAX_RETRIES
                    /\ UnavailablesOf(mr[t]) = MAX_RETRIES)

\* C17 happens: a worker's request was given up at its MAX_RETRIES-th 503
\* response, with a 403 response in between, after other requests of the
\* run had been answered 503 and retried.
C17_Witness ==
    \E w \in Workers :
        /\ mr[w].pc = "unavailable"
        /\ mr[w].cooldowns = MaxOutage403
        /\ 2 * MAX_RETRIES - 1 - srv.f503 > MAX_RETRIES
        /\ ncalls > 1

\* C17 happens: two workers are both retrying after 503 responses, with
\* different counts of attempts.
C17_WitnessTwoWorkers ==
    /\ \A w \in Workers : mr[w].pc = "sleep" /\ mr[w].dur = RETRY_TIMER
    /\ mr[1].attempts = MAX_RETRIES
    /\ mr[2].attempts = 2

\* C18: the sink has at most one file open, the last one.  A file is opened
\* only when none is open: as the first file, or after the one before was
\* closed with max_entries lines.  A line is written only to the open file,
\* one at a time, and a closed file never changes.
OpenFiles == {i \in 1..Len(files) : ~files[i].closed}
C18_OneOpenBatch ==
    /\ [](/\ Cardinality(OpenFiles) <= 1
          /\ OpenFiles \subseteq {Len(files)}
          /\ \A i \in 1..Len(files) :
                /\ Len(files[i].lines) \in 1..max_entries
                /\ i < Len(files) => Len(files[i].lines) = max_entries
          /\ spc = "get" => (OpenFiles # {} <=> entry_count > 0))
    /\ [][Len(files') # Len(files) =>
            /\ OpenFiles = {}
            /\ entry_count = 0
            /\ files # <<>> => Len(files[Len(files)].lines) = max_entries
            /\ Len(files') = Len(files) + 1
            /\ Len(files'[Len(files')].lines) = 1]_vars
    /\ [][\A i \in 1..Len(files) :
            /\ files[i].closed => files'[i] = files[i]
            /\ files'[i].lines # files[i].lines =>
                /\ OpenFiles = {i}
                /\ Len(files') = Len(files)
                /\ files'[i].lines
                     = Append(files[i].lines, JsonDumps(entry'))]_vars

\* C18 happens: the first file was closed with max_entries = 2 lines and
\* the third entry is in the second file, which is open.
C18_Witness ==
    /\ max_entries = 2
    /\ Len(files) = 2
    /\ files[1].closed
    /\ Len(files[1].lines) = 2
    /\ ~files[2].closed
    /\ Len(files[2].lines) = 1

\* C19: the steps of a worker thread follow one order.  After its first
\* get it makes the request of its task; when the request is over (entries
\* put, or failure logged) it acknowledges the task, then gets the next
\* one, then sleeps the cooldown, then makes the request of the task it
\* got.  A request is in progress only in the request step, so the task is
\* acknowledged before the sleep and one cooldown lies between the requests
\* of two tasks.  A worker that finds the queue empty, at the first get or
\* at a later one, exits and makes no request after that.
Step(w, from, to) == wk[w].pc = from /\ wk'[w].pc = to
SamePage(w) == wk'[w].page = wk[w].page
C19_WorkerOrder ==
    /\ [][\A w \in Workers :
            (wk'[w] # wk[w] /\ wk'[w].run = wk[w].run) =>
                \/ /\ Step(w, "get_first", "request")
                   /\ QueueOf(w) # <<>>
                   /\ wk'[w].page = Head(params_queue)
                   /\ mr'[w].pc = "get"
                \/ Step(w, "get_first", "exit") /\ QueueOf(w) = <<>>
                \/ /\ Step(w, "request", "task_done")
                   /\ SamePage(w)
                   /\ ~Calling(w)
                   /\ unfinished' = unfinished
                \/ /\ Step(w, "task_done", "get_next")
                   /\ SamePage(w)
                   /\ unfinished' = unfinished - 1
                \/ /\ Step(w, "get_next", "sleep")
                   /\ QueueOf(w) # <<>>
                   /\ wk'[w].page = Head(params_queue)
                   /\ mr'[w] = mr[w]
                \/ Step(w, "get_next", "exit") /\ QueueOf(w) = <<>>
                \/ /\ Step(w, "sleep", "request")
                   /\ SamePage(w)
                   /\ mr'[w].pc = "get"
                   /\ mr'[w].params.startIndex = wk[w].page]_vars
    /\ [][unfinished' < unfinished =>
            \E w \in Workers : Step(w, "task_done", "get_next")]_vars
    /\ [](\A w \in Workers :
            /\ mr[w].pc # "idle" => wk[w].pc = "request"
            /\ Calling(w) => mr[w].params.startIndex = wk[w].page)

\* C19 happens: with more tasks than workers a worker has acknowledged one
\* task, slept, and is making the request of the last task.
C19_Witness ==
    /\ ncalls = MAX_WORKERS + 1
    /\ Len(RunTasks) = MAX_WORKERS + 1
    /\ \E w \in Workers :
        /\ wk[w].pc = "request"
        /\ mr[w].pc = "get"
        /\ mr[w].gets = 0
        /\ wk[w].page = RunTasks[Len(RunTasks)]

\* C19 happens: a worker found the queue empty at its first get and exited
\* while the other one handled the tasks.
C19_WitnessExit ==
    /\ cpc = "start"
    /\ ncalls = 2
    /\ \E w \in Workers :
        wk[w].run = Run /\ wk[w].pc = "exit" /\ wk[w].page = -1

\* C20: for every days_back >= 0, when every request gets a response and
\* the 403 responses are finitely many, fetch_days_back returns and the
\* sink thread ends, also when no entry at all was put.  The server of Init
\* gives finitely many non-200 responses, so every execution is finite, and
\* the claim is that an execution stops only with fetch_days_back returned
\* and the sink thread over.
Stopped == ~ENABLED Next
C20_Terminates == Stopped => (cpc = "returned" /\ spc = "done")

\* what holds of C20: the executions in which an entry was put stop with
\* fetch_days_back returned and the sink thread over
C20_TerminatesAfterAnEntry ==
    (Stopped /\ EntriesPut > 0) => (cpc = "returned" /\ spc = "done")

\* fetch_days_back itself returns in every execution
C20_FetchReturns == Stopped => cpc = "returned"

\* C21: every task a worker has claimed is acknowledged once by that
\* worker, whatever the outcome of handling it (entries put, QueryFailed of
\* either kind, an exception in _parse_response): no worker thread ends
\* holding a task it has not acknowledged, every task not yet acknowledged
\* is in the queue or in the hands of a live worker, and the execution
\* never stops with the coordinator waiting in params_queue.join().
Dead(w) == wk[w].run = Run /\ wk[w].pc = "dead"
StoppedFetch == ~ENABLED NextParse
C21_EveryTaskAcknowledged ==
    /\ \A w \in Workers : ~Dead(w)
    /\ unfinished = Len(params_queue) + Cardinality(Held)
    /\ StoppedFetch => cpc # "start"

\* what holds of C21: as long as no worker died in _parse_response, every
\* task not yet acknowledged is in the queue or held by a worker, a worker
\* whose request raised QueryFailed still holds its task, and the execution
\* does not stop in params_queue.join(); a worker that died there leaves its
\* task unacknowledged for good.
C21_AcknowledgedUnlessParseError ==
    /\ (\A w \in Workers : ~Dead(w)) =>
         /\ unfinished = Len(params_queue) + Cardinality(Held)
         /\ StoppedFetch => cpc # "start"
         /\ \A w \in Workers :
              (wk[w].run = Run /\ wk[w].pc \in {"get_next", "exit"}) =>
                  wk[w].page \notin Range(params_queue)
    /\ unfinished
         = Len(params_queue) + Cardinality(Held)
             + Cardinality({w \in Workers : Dead(w)})
    /\ (\E w \in Workers : Dead(w)) => cpc = "start"

\* the join that never returns: every worker thread is over, one of them
\* died in _parse_response, and the coordinator waits for its task
C21_JoinHangs ==
    /\ StoppedFetch
    /\ cpc = "start"
    /\ unfinished = 1
    /\ \E w \in Workers : Dead(w)

\* the lines of all the files, in the order they were written
RECURSIVE Flatten(_)
Flatten(fs) ==
    IF fs = <<>> THEN <<>>
    ELSE Flatten(SubSeq(fs, 1, Len(fs) - 1)) \o fs[Len(fs)].lines
Written == Flatten(files)
\* the entries put on the output queue, in order
PutEntries == SelectSeq(PutLog, LAMBDA e : ~IsNone(e))

\* C22: when the sink thread has ended, the lines written to the files are
\* the entries of the pages fetched with success, first pages and worker
\* pages, of all the windows, each once.  Every run puts the entries of its
\* first page and of its pages that did not fail, each once, and none when
\* its first request failed; what was put for an earlier window never
\* changes; and the sink, once over, has written what was put, in order,
\* each entry once, and nothing else.
C22_Conservation ==
    /\ [](\A i, j \in 1..Len(PutLog) : PutLog[i] = PutLog[j] => i = j)
    /\ []((Run > 0 /\ RunOver) =>
            IF mr[Main].pc = "returned"
            THEN /\ {PutLog[i] : i \in RunPut}
                      = FetchedEntries(requested \ failed)
                 /\ requested = TaskSet
            ELSE RunPut = {})
    /\ [][/\ Len(PutLog') >= Len(PutLog)
          /\ \A i \in 1..Len(PutLog) : PutLog'[i] = PutLog[i]
          /\ \A i \in (Len(PutLog) + 1)..Len(PutLog') :
                ~IsNone(PutLog'[i]) =>
                    /\ WindowOf(PutLog'[i]) = Run
                    /\ PutLog'[i] \in FetchedEntries(requested \ failed)]_vars
    /\ [](spc = "done" =>
            /\ output_queue = <<>>
            /\ Len(Written) = Len(PutEntries)
            /\ \A i \in 1..Len(Written) :
                Written[i] = JsonDumps(PutEntries[i]))

\* C22 happens: the sink thread has ended after a run in which a page
\* failed; the entries of the first page and of the other page are written.
C22_Witness ==
    /\ spc = "done"
    /\ failed # {}
    /\ Cardinality(requested) = 2
    /\ Len(Written) = 2

\* C22 happens: the sink thread has ended with the entries of two windows
\* written.
C22_WitnessTwoWindows ==
    /\ spc = "done"
    /\ Run = 2
    /\ Len(Written) >= 2
    /\ WindowOf(PutEntries[1]) = 1
    /\ WindowOf(PutEntries[Len(PutEntries)]) = 2

====
